---- MODULE Spec2Model ----
(***************************************************************************)
(* Model of detection/process_video.py: the orchestration of one run of   *)
(* process_video (single video) or process_video_folder (folder of        *)
(* videos): workspace creation, frame extraction, detection or reuse of a *)
(* result file, aggregation, rendering, stitching and workspace cleanup.  *)
(*                                                                         *)
(* The collaborators (video_to_frames, video_folder_to_frames,            *)
(* load_and_run_detector_batch, write_results_to_file,                    *)
(* visualize_detector_output, frames_to_video, os.remove, shutil.rmtree)  *)
(* are the environment: each either succeeds with the effect its          *)
(* interface describes or raises.                                          *)
(*                                                                         *)
(* Reading of the source: lines 360-434 of process_video.py are dedented  *)
(* to module level although they are the rendering loop and the cleanup   *)
(* of process_video_folder (see the markers "...for each video", "...if   *)
(* we're rendering video" and "...process_video_folder()").  They are     *)
(* modelled as the continuation of process_video_folder: the pool and the *)
(* rendered-frame cleanup inside "if options.render_output_video", the    *)
(* extracted-frame cleanup after it.  A name that is bound on that path   *)
(* resolves; a name bound nowhere on it raises NameError                   *)
(* (input_video_file_abs at line 382, video_output_file at line 407,      *)
(* tempdir at line 330 when frame_folder was supplied).                    *)
(***************************************************************************)
EXTENDS Integers, Sequences, FiniteSets, TLC

\* ------------------------------------------------------------------ bounds

\* largest number of frames the extractor yields for one video
MaxFrames == 2

\* the positive value of debug_max_frames that is tried (besides the default -1)
DebugCap == 1

\* ------------------------------------------------------------------- paths
\* A path is a sequence of one-character strings, so that str.startswith is
\* a prefix test and os.path.join a concatenation.

Sep == "/"

join(p, q) == p \o <<Sep>> \o q

startswith(s, p) == Len(p) <= Len(s) /\ SubSeq(s, 1, Len(p)) = p

\* the relative paths of the videos a folder can hold; the second has the
\* first as a string prefix (e.g. clip.mp4 and clip.mp4.avi)
AllVideos == << <<"a">>, <<"a", "b">> >>

\* the single video of process_video
TheVideo == <<"a">>

\* directory of the extracted frames and of the rendered frames
FrameDir == <<"x">>
RenderDir == <<"r">>

Digits == <<"1", "2", "3", "4", "5", "6", "7", "8", "9">>

\* name of the i-th frame image of a video
FrameName(i) == <<"f", Digits[i]>>

\* a file that is in a workspace folder but is not a frame of this run
Residual(dir) == join(dir, <<"o">>)

\* video_to_frames writes the frames of the video into the output folder
FramesOfVideo(dir, n) == [i \in 1..n |-> join(dir, FrameName(i))]

\* video_folder_to_frames / visualize_detector_output(preserve_path_structure):
\* the frames of a video live in the folder named by the video's relative path
FramesInFolder(dir, rel, n) == [i \in 1..n |-> join(join(dir, rel), FrameName(i))]

RECURSIVE chain(_)
\* itertools.chain.from_iterable
chain(ss) == IF ss = <<>> THEN <<>> ELSE Head(ss) \o chain(Tail(ss))

Range(s) == {s[i] : i \in 1..Len(s)}

Min(a, b) == IF a <= b THEN a ELSE b

\* files[0:n]
Slice(files, n) == SubSeq(files, 1, Min(n, Len(files)))

\* the rendered copy of an extracted frame: same relative path, other root
Rendered(f) == RenderDir \o SubSeq(f, Len(FrameDir) + 1, Len(f))

\* ----------------------------------------------------------------- options

\* ProcessVideoOptions, as far as the orchestration reads it.  A path option
\* is "None" or names what the caller passed.  frame_sample 0 stands for None.
Flags == [reuse_results_if_available : BOOLEAN,
          reuse_frames_if_available : BOOLEAN,
          render_output_video : BOOLEAN,
          keep_rendered_frames : BOOLEAN,
          keep_extracted_frames : BOOLEAN,
          force_extracted_frame_folder_deletion : BOOLEAN,
          force_rendered_frame_folder_deletion : BOOLEAN,
          frame_folder : {"None", "given"},
          frame_rendering_folder : {"None", "given"},
          output_json_file : {"None", "given"},
          output_video_file : {"None", "given", "workspace", "input", "folder", "file"},
          debug_max_frames : {-1, DebugCap},
          frame_sample : {0, 5}]

\* The option values a run is started with.  Options that are only read when
\* rendering keep their defaults in runs that do not render.  For a single
\* video output_video_file is unset, a file of the caller, or the path of
\* the rendering workspace; for a folder it is unset, the input folder,
\* another folder, or an existing regular file.
Options(m) ==
    {o \in Flags :
        /\ (~o.render_output_video =>
               /\ ~o.keep_rendered_frames
               /\ ~o.force_rendered_frame_folder_deletion
               /\ o.frame_rendering_folder = "None"
               /\ o.output_video_file = "None"
               /\ o.frame_sample = 0)
        /\ (m = "single" =>
               /\ o.output_json_file = "None"
               /\ o.output_video_file \in {"None", "given", "workspace"}
               /\ (o.output_video_file = "workspace" => o.frame_rendering_folder = "None"))
        /\ (m = "folder" =>
               o.output_video_file \in {"None", "input", "folder", "file"})}

\* ------------------------------------------------------------------- state

VARIABLES
    mode,                          \* "single": process_video, "folder": process_video_folder
    opt,                           \* the options object
    jsonExisted,                   \* the frame-level result file existed when the run began
    pc,                            \* position of the run
    frame_output_folder_created,   \* process_video, line 121
    frame_rendering_folder_created,\* lines 165, 323
    video_filenames,               \* folder mode: the discovered videos
    frame_filenames,               \* extracted frames (per video in folder mode)
    Fs,                            \* frame rate of the video (per video in folder mode)
    image_file_names,              \* the frames handed to the detector
    detected_frame_files,          \* the rendered frames
    fsFrames,                      \* files in the extraction workspace
    fsFrameDir,                    \* the extraction workspace folder exists
    fsRender,                      \* files in the rendering workspace
    fsRenderDir,                   \* the rendering workspace folder exists
    jsonSrc,                       \* frame-level result file: "none", "old" (found by the run), "new" (written by it)
    jsonWrites,                    \* times the run wrote the frame-level result file
    videoJson,                     \* folder mode: the video-level result file was written
    detectCalls,                   \* calls of load_and_run_detector_batch
    results,                       \* process_video's return value: "unset", "loaded", "computed"
    task,                          \* pool.map: state of each video's process_single_video call
    stitched,                      \* the calls of frames_to_video that completed
    firstFailure,                  \* index of the first task that raised, 0 if none
    reported,                      \* the task failures the caller gets to see
    fatal,                         \* the step whose exception left the function, "none" if none
    warnings,                      \* number of cleanup warnings printed
    rmtreeCalls,                   \* workspaces shutil.rmtree was called on
    cleanupRan,                    \* cleanup blocks that were entered
    delFailed,                     \* cleanup blocks in which os.remove or shutil.rmtree raised
    report,                        \* message of the early return at lines 278-284
    extractLog,                    \* the calls of video_to_frames / video_folder_to_frames
    w_base,                        \* concurrent runs: basename of each run's input
    w_pc,                          \* concurrent runs: position of each run
    w_uuid,                        \* concurrent runs: number of uuid1() values handed out
    w_frame,                       \* concurrent runs: each run's frame_output_folder
    w_render,                      \* concurrent runs: each run's rendering_output_dir
    w_fsFrames,                    \* concurrent runs: extracted frames on disk, [dir, owner]
    w_fsRender,                    \* concurrent runs: rendered frames on disk, [dir, owner]
    o_input,                       \* reused options object: input_video_file
    o_json,                        \* reused options object: output_json_file
    o_video,                       \* reused options object: output_video_file
    o_render,                      \* reused options object: render_output_video
    o_supplied,                    \* the output paths the caller put into the object
    o_calls,                       \* the process_video calls made with the object
    c_rows,                        \* Timelapse import: the rows of input_metadata
    c_candidates,                  \* Timelapse import: candidate image folders of the camera, in list order
    c_i,                           \* Timelapse import: number of rows the loop has taken
    c_pc,                          \* Timelapse import: "loop", "done" or "raised"
    c_images,                      \* Timelapse import: images
    c_annotations,                 \* Timelapse import: annotations, with the row each came from
    c_categories,                  \* Timelapse import: category names, id = position - 1
    c_ignored_csv_files,           \* Timelapse import: ignored_csv_files
    c_ignored_image_folders,       \* Timelapse import: ignored_image_folders
    c_missing,                     \* Timelapse import: files_missing_from_file_list
    c_duplicates,                  \* Timelapse import: duplicate_image_ids
    m_opt,                         \* merge_detections: the MergeDetectionsOptions
    m_source_files,                \* merge_detections: source_files
    m_source,                      \* merge_detections: the images of the source file
    m_target,                      \* merge_detections: the images of target_file as loaded
    m_out,                         \* merge_detections: the images of output_data
    m_info,                        \* merge_detections: info['detections_transferred_from']
    m_cats,                        \* merge_detections: detection_categories
    m_i,                           \* merge_detections: index of the source file in work
    m_j,                           \* merge_detections: index of the source image in work
    m_pc,                          \* merge_detections: "start", "file", "image", "saved", "raised"
    m_run,                         \* merge_detections: 1, or 2 when merging into the previous output
    m_transfers                    \* merge_detections: the transfers made, [file, det, i, run]

vars == <<mode, opt, jsonExisted, pc, frame_output_folder_created, frame_rendering_folder_created,
          video_filenames, frame_filenames, Fs, image_file_names, detected_frame_files,
          fsFrames, fsFrameDir, fsRender, fsRenderDir, jsonSrc, jsonWrites, videoJson,
          detectCalls, results, task, stitched, firstFailure, reported, fatal, warnings,
          rmtreeCalls, cleanupRan, delFailed, report, extractLog,
          w_base, w_pc, w_uuid, w_frame, w_render, w_fsFrames, w_fsRender,
          o_input, o_json, o_video, o_render, o_supplied, o_calls,
          c_rows, c_candidates, c_i, c_pc, c_images, c_annotations, c_categories,
          c_ignored_csv_files, c_ignored_image_folders, c_missing, c_duplicates,
          m_opt, m_source_files, m_source, m_target, m_out, m_info, m_cats, m_i, m_j,
          m_pc, m_run, m_transfers>>

\* the state of one run of process_video or process_video_folder
runVars == <<mode, opt, jsonExisted, pc, frame_output_folder_created,
             frame_rendering_folder_created, video_filenames, frame_filenames, Fs,
             image_file_names, detected_frame_files, fsFrames, fsFrameDir, fsRender,
             fsRenderDir, jsonSrc, jsonWrites, videoJson, detectCalls, results, task,
             stitched, firstFailure, reported, fatal, warnings, rmtreeCalls, cleanupRan,
             delFailed, report, extractLog>>

\* the state of two runs that execute at the same time
wsVars == <<w_base, w_pc, w_uuid, w_frame, w_render, w_fsFrames, w_fsRender>>

\* one options object handed to successive process_video calls
optObjVars == <<o_input, o_json, o_video, o_render, o_supplied, o_calls>>

\* the state of the specifications that are not about one run
\* the main loop over labels of timelapse_csv_set_to_json.py
csvVars == <<c_rows, c_candidates, c_i, c_pc, c_images, c_annotations, c_categories,
             c_ignored_csv_files, c_ignored_image_folders, c_missing, c_duplicates>>

\* one use of merge_detections
mergeVars == <<m_opt, m_source_files, m_source, m_target, m_out, m_info, m_cats, m_i, m_j,
               m_pc, m_run, m_transfers>>

auxVars == <<optObjVars, csvVars, mergeVars>>

\* the runs, and the basenames their inputs can have
Runs == {1, 2}
Bases == {"a", "b"}

optVars == <<mode, opt, jsonExisted>>
flagVars == <<frame_output_folder_created, frame_rendering_folder_created>>
frameVars == <<video_filenames, frame_filenames, Fs, image_file_names>>
frameFsVars == <<fsFrames, fsFrameDir>>
renderFsVars == <<fsRender, fsRenderDir>>
detectVars == <<jsonSrc, jsonWrites, detectCalls, results>>
poolVars == <<task, stitched, firstFailure, reported>>
cleanVars == <<warnings, rmtreeCalls, cleanupRan, delFailed>>

\* A caller-supplied folder exists and holds a file of the caller; so does the
\* rendering folder in the temporary directory, whose name is the same in
\* every run for one input (lines 171-172, 329-330).
InitRun ==
    /\ mode \in {"single", "folder"}
    /\ opt \in Options(mode)
    /\ pc = "start"
    /\ frame_output_folder_created = FALSE
    /\ frame_rendering_folder_created = FALSE
    /\ video_filenames = <<>>
    /\ frame_filenames = <<>>
    /\ Fs = <<>>
    /\ image_file_names = <<>>
    /\ detected_frame_files = <<>>
    /\ fsFrameDir = (opt.frame_folder = "given")
    /\ fsFrames = IF opt.frame_folder = "given" THEN {Residual(FrameDir)} ELSE {}
    /\ fsRenderDir = TRUE
    /\ fsRender = {Residual(RenderDir)}
    /\ jsonExisted \in BOOLEAN
    /\ jsonSrc = IF jsonExisted THEN "old" ELSE "none"
    /\ jsonWrites = 0
    /\ videoJson = FALSE
    /\ detectCalls = 0
    /\ results = "unset"
    /\ task = <<>>
    /\ stitched = {}
    /\ firstFailure = 0
    /\ reported = {}
    /\ fatal = "none"
    /\ warnings = 0
    /\ rmtreeCalls = {}
    /\ cleanupRan = {}
    /\ delFailed = {}
    /\ report = "none"
    /\ extractLog = <<>>

\* no run has started; bases gives the basename of each run's input
InitWorkspaces(bases) ==
    /\ w_base = bases
    /\ w_pc = [r \in Runs |-> "start"]
    /\ w_uuid = 0
    /\ w_frame = [r \in Runs |-> <<>>]
    /\ w_render = [r \in Runs |-> <<>>]
    /\ w_fsFrames = {}
    /\ w_fsRender = {}

\* None, and the paths an options object can hold: a path is a tuple of parts
None == <<>>
Inputs == {<<"a">>, <<"b">>, <<"c">>}

\* an options object as the caller built it: json and video are the output
\* paths the caller supplied, None where the caller supplied none
InitOptionsObject(input, json, video, render) ==
    /\ o_input = input
    /\ o_json = json
    /\ o_video = video
    /\ o_render = render
    /\ o_supplied = [json |-> json, video |-> video]
    /\ o_calls = <<>>

\* timelapse_csv_set_to_json.py lines 222-248: the state before the loop
InitCsv(rows, candidates) ==
    /\ c_rows = rows
    /\ c_candidates = candidates
    /\ c_i = 0
    /\ c_pc = "loop"
    /\ c_images = <<>>
    /\ c_annotations = <<>>
    /\ c_categories = <<"empty">>
    /\ c_ignored_csv_files = {}
    /\ c_ignored_image_folders = {}
    /\ c_missing = <<>>
    /\ c_duplicates = {}

\* merge_detections.py lines 46-76: the call and the target file as loaded
InitMerge(options, source_files, source, target) ==
    /\ m_opt = options
    /\ m_source_files = source_files
    /\ m_source = source
    /\ m_target = target
    /\ m_out = target
    /\ m_info = <<>>
    /\ m_cats = <<>>
    /\ m_i = 0
    /\ m_j = 0
    /\ m_pc = "start"
    /\ m_run = 1
    /\ m_transfers = {}

\* MergeDetectionsOptions with nothing to merge
InitMergeIdle ==
    InitMerge([merge_empty_only |-> FALSE, iou_threshold |-> 90,
               target_confidence_threshold |-> 8, source_confidence_thresholds |-> <<>>,
               categories_to_include |-> [given |-> FALSE, cats |-> {}],
               categories_to_exclude |-> [given |-> FALSE, cats |-> {}],
               min_detection_size |-> 1, max_detection_size |-> 2],
              <<>>, <<>>, <<>>)

InitAux ==
    /\ InitOptionsObject(<<"a">>, None, None, FALSE)
    /\ InitCsv(<<>>, <<>>)
    /\ InitMergeIdle

Init == InitRun /\ InitWorkspaces([r \in Runs |-> "a"]) /\ InitAux

\* ------------------------------------------------- decisions of the source

\* frame rates the extractor reports for the videos (multiples of the
\* sampling stride tried, so that the division of lines 187 and 365 is exact)
SourceFps(rel) == IF rel = <<"a">> THEN 30 ELSE 25

\* variant: the sampling stride is not applied
rendering_fs_NoStride(video_fs, frame_sample) == video_fs

\* lines 184-187 and 362-365: the frame rate of the output video
rendering_fs(video_fs, frame_sample) ==
    IF frame_sample = 0 THEN video_fs ELSE video_fs \div frame_sample

\* the input folder of process_video_folder and the folder output_video_file names
InputDir == <<"i">>
OutDir == <<"v">>

\* md_utils.path_utils.insert_before_extension(path, 'annotated', '_')
insert_before_extension(path) == path \o <<"_annotated">>

\* lines 108-109: the output video of process_video
SV_output_video_file ==
    IF opt.output_video_file = "None" THEN TheVideo \o <<".detections.mp4">>
    ELSE IF opt.output_video_file = "workspace" THEN RenderDir
    ELSE <<"given">>

\* variant: a missing output_json_file is accepted
ValidateOptions_NoAssert(output_json_file) == "ok"

\* lines 240-243: the assertions on output_json_file
ValidateOptions(output_json_file) ==
    IF output_json_file = "None" THEN "AssertionError" ELSE "ok"

\* variant: only the list of videos is tested
EarlyReturn_VideosOnly(n_frames, n_videos) ==
    IF n_videos = 0 THEN "no_videos" ELSE "none"

\* lines 278-284: the message of the early return, "none" when the run goes on
EarlyReturn(n_frames, n_videos) ==
    IF n_frames = 0
    THEN IF n_videos = 0 THEN "no_videos" ELSE "no_frames"
    ELSE "none"

\* variant: the parent does not wait for the tasks
PoolComplete_NoWait(t) == TRUE

\* lines 395-400: pool.map returns once every task has run
PoolComplete(t) == \A i \in DOMAIN t : t[i] # "pending"

\* an exception that no try block encloses leaves the function
Propagate(step) == "raised"

\* lines 137-138 and 286-287: the debug cap
Truncate(files, debug_max_frames) ==
    IF debug_max_frames > 0 THEN Slice(files, debug_max_frames) ELSE files

\* variant: the existence test inverted
UseExistingResults_Inverted(reuse_results_if_available, isfile) ==
    reuse_results_if_available /\ ~isfile

\* variant: the flag is not consulted
UseExistingResults_NoFlag(reuse_results_if_available, isfile) ==
    isfile

\* lines 140-141 and 292-293: load the result file instead of running the detector
UseExistingResults(reuse_results_if_available, isfile) ==
    reuse_results_if_available /\ isfile

\* variant: a set force flag enters the cleanup block as well
CleanupEnabled_ForceWins(keep, force) == ~keep \/ force

\* lines 193, 211, 405, 422: a cleanup block is entered unless its keep flag is set
CleanupEnabled(keep, force) == ~keep

\* variant: the created flag is not consulted
SV_RenderedCleanup_NoCreated(force, created, differs) ==
    IF force \/ differs THEN "rmtree" ELSE "files"

\* variant: the comparison of the paths is left out
SV_RenderedCleanup_NoDiffers(force, created, differs) ==
    IF force \/ created THEN "rmtree" ELSE "files"

\* line 196: what the rendered-frame cleanup of process_video does
SV_RenderedCleanup(force, created, differs) ==
    IF force \/ (created /\ differs) THEN "rmtree" ELSE "files"

\* variant: the force flag is not consulted
SV_ExtractedCleanup_NoForce(force, created) ==
    IF created THEN "error" ELSE "files"

\* line 214: what the extracted-frame cleanup of process_video does.  When
\* force is unset and the folder was created, the condition reads
\* options.ouput_json_file, an attribute the options object does not have:
\* AttributeError, raised inside the try block.
SV_ExtractedCleanup(force, created) ==
    IF force THEN "rmtree" ELSE IF created THEN "error" ELSE "files"

\* line 407: what the rendered-frame cleanup of process_video_folder does.
\* When force is unset and the folder was created, the condition reads
\* video_output_file, a local of process_single_video: NameError, raised
\* inside the try block.
PF_RenderedCleanup(force, created) ==
    IF force THEN "rmtree" ELSE IF created THEN "error" ELSE "files"

\* line 425: what the extracted-frame cleanup of process_video_folder does
PF_ExtractedCleanup(force) ==
    IF force THEN "rmtree" ELSE "files"

\* The outcomes of a cleanup try block (lines 195-200, 213-219, 406-411,
\* 423-430) on the files fs of a workspace folder.  shutil.rmtree removes the
\* folder with all it holds, or raises.  The loop of os.remove calls removes
\* the listed files in order and stops at the first call that raises, which
\* any call may and a call on a missing file does.  When the condition of
\* the block itself raises, nothing is deleted.
CleanupOutcomes(choice, files, fs) ==
    CASE choice = "rmtree" ->
            {[fs |-> {}, dir |-> FALSE, exc |-> FALSE, del |-> FALSE],
             [fs |-> fs, dir |-> TRUE, exc |-> TRUE, del |-> TRUE]}
      [] choice = "files" ->
            {[fs |-> fs \ Range(Slice(files, k)), dir |-> TRUE,
              exc |-> k < Len(files), del |-> k < Len(files)] :
                k \in {j \in 0..Len(files) :
                         /\ \A i \in 1..j : files[i] \in fs
                         /\ \A i1, i2 \in 1..j : files[i1] = files[i2] => i1 = i2}}
      [] OTHER ->
            {[fs |-> fs, dir |-> TRUE, exc |-> TRUE, del |-> FALSE]}

\* variant: the exception is raised again
CleanupHandler_Reraise(exc, w) ==
    [warnings |-> IF exc THEN w + 1 ELSE w, raises |-> exc]

\* lines 201-204, 220-223, 412-415, 431-434: "except Exception" prints a
\* warning and the function goes on
CleanupHandler(exc, w) ==
    [warnings |-> IF exc THEN w + 1 ELSE w, raises |-> FALSE]

\* the images the frame-level result file lists: a file written by this run
\* lists the frames given to the detector, a file found by it the frames of
\* an earlier run over the same input
JsonImages ==
    IF jsonSrc = "new" THEN image_file_names
    ELSE IF mode = "folder" THEN chain(frame_filenames) ELSE frame_filenames

\* ---------------------------------------------------------- process_video

\* lines 105-130: output paths, temporary folders, extraction workspace
SV_Setup ==
    /\ mode = "single" /\ pc = "start"
    /\ frame_output_folder_created' = (opt.frame_folder = "None")
    /\ fsFrameDir' = TRUE
    /\ pc' = "extract"
    /\ UNCHANGED <<auxVars, wsVars, optVars, extractLog, frame_rendering_folder_created, frameVars, detected_frame_files,
                   fsFrames, renderFsVars, detectVars, videoJson, poolVars, fatal,
                   cleanVars, report>>

\* variant: the extractor is always told to overwrite
Overwrite_Always(reuse_frames_if_available) == TRUE

\* lines 134 and 271: the overwrite argument of the extractor
Overwrite(reuse_frames_if_available) == ~reuse_frames_if_available

\* the extractor leaves a frame file that is already there as it is only
\* when it is called with overwrite unset
ExtractorMayReuse(overwrite) == ~overwrite

\* lines 132-134 and 268-274: the arguments of one call of the extractor
ExtractorCall(o) ==
    [overwrite |-> Overwrite(o.reuse_frames_if_available),
     every_n_frames |-> o.frame_sample,
     may_reuse |-> ExtractorMayReuse(Overwrite(o.reuse_frames_if_available))]

\* lines 132-138: video_to_frames, then the debug cap
SV_Extract ==
    /\ mode = "single" /\ pc = "extract"
    /\ extractLog' = Append(extractLog, ExtractorCall(opt))
    /\ \E ok \in BOOLEAN, n \in 0..MaxFrames :
         IF ok
         THEN /\ frame_filenames' = FramesOfVideo(FrameDir, n)
              /\ Fs' = SourceFps(TheVideo)
              /\ image_file_names' = Truncate(frame_filenames', opt.debug_max_frames)
              /\ fsFrames' = fsFrames \cup Range(frame_filenames')
              /\ pc' = "detect"
              /\ UNCHANGED fatal
         ELSE /\ pc' = Propagate("extract")
              /\ fatal' = "extraction"
              /\ UNCHANGED <<frame_filenames, Fs, image_file_names, fsFrames>>
    /\ UNCHANGED <<auxVars, wsVars, optVars, flagVars, video_filenames, detected_frame_files, fsFrameDir,
                   renderFsVars, detectVars, videoJson, poolVars, cleanVars, report>>

\* lines 140-157: load the results or run the detector and write them
SV_Detect ==
    /\ mode = "single" /\ pc = "detect"
    /\ IF UseExistingResults(opt.reuse_results_if_available, jsonSrc # "none")
       THEN /\ results' = "loaded"
            /\ pc' = IF opt.render_output_video THEN "render" ELSE "cleanup_extracted"
            /\ UNCHANGED <<jsonSrc, jsonWrites, detectCalls, fatal>>
       ELSE /\ detectCalls' = detectCalls + 1
            /\ \E ok \in BOOLEAN :
                 IF ok
                 THEN /\ results' = "computed"
                      /\ jsonSrc' = "new"
                      /\ jsonWrites' = jsonWrites + 1
                      /\ pc' = IF opt.render_output_video THEN "render" ELSE "cleanup_extracted"
                      /\ UNCHANGED fatal
                 ELSE /\ pc' = Propagate("detect")
                      /\ fatal' = "detection"
                      /\ UNCHANGED <<results, jsonSrc, jsonWrites>>
    /\ UNCHANGED <<auxVars, wsVars, optVars, extractLog, flagVars, frameVars, detected_frame_files, frameFsVars,
                   renderFsVars, videoJson, poolVars, cleanVars, report>>

\* lines 162-181: rendering workspace and visualize_detector_output
SV_Render ==
    /\ mode = "single" /\ pc = "render"
    /\ frame_rendering_folder_created' = (opt.frame_rendering_folder = "None")
    /\ \E ok \in BOOLEAN :
         IF ok
         THEN /\ detected_frame_files' = [i \in 1..Len(JsonImages) |-> Rendered(JsonImages[i])]
              /\ fsRender' = fsRender \cup Range(detected_frame_files')
              /\ pc' = "stitch"
              /\ UNCHANGED fatal
         ELSE /\ pc' = Propagate("render")
              /\ fatal' = "rendering"
              /\ UNCHANGED <<detected_frame_files, fsRender>>
    /\ UNCHANGED <<auxVars, wsVars, optVars, extractLog, frame_output_folder_created, frameVars, frameFsVars, fsRenderDir,
                   detectVars, videoJson, poolVars, cleanVars, report>>

\* lines 184-191: frames_to_video
SV_Stitch ==
    /\ mode = "single" /\ pc = "stitch"
    /\ \E ok \in BOOLEAN :
         IF ok
         THEN /\ stitched' = stitched \cup
                    {[video |-> TheVideo, frames |-> detected_frame_files,
                      fs |-> rendering_fs(Fs, opt.frame_sample),
                      out |-> SV_output_video_file]}
              /\ pc' = "cleanup_rendered"
              /\ UNCHANGED fatal
         ELSE /\ pc' = Propagate("stitch")
              /\ fatal' = "rendering"
              /\ UNCHANGED stitched
    /\ UNCHANGED <<auxVars, wsVars, optVars, extractLog, flagVars, frameVars, detected_frame_files, frameFsVars,
                   renderFsVars, detectVars, videoJson, task, firstFailure, reported,
                   cleanVars, report>>

\* lines 194-204: delete the rendered frames
SV_CleanupRendered ==
    /\ mode = "single" /\ pc = "cleanup_rendered"
    /\ IF CleanupEnabled(opt.keep_rendered_frames, opt.force_rendered_frame_folder_deletion)
       THEN LET choice == SV_RenderedCleanup(opt.force_rendered_frame_folder_deletion,
                                             frame_rendering_folder_created,
                                             opt.output_video_file # "workspace")
            IN \E r \in CleanupOutcomes(choice, detected_frame_files, fsRender) :
                 LET h == CleanupHandler(r.exc, warnings)
                 IN /\ fsRender' = r.fs
                    /\ fsRenderDir' = r.dir
                    /\ rmtreeCalls' = IF choice = "rmtree" THEN rmtreeCalls \cup {"rendered"}
                                      ELSE rmtreeCalls
                    /\ cleanupRan' = cleanupRan \cup {"rendered"}
                    /\ delFailed' = IF r.del THEN delFailed \cup {"rendered"} ELSE delFailed
                    /\ warnings' = h.warnings
                    /\ pc' = IF h.raises THEN Propagate("cleanup") ELSE "cleanup_extracted"
       ELSE /\ pc' = "cleanup_extracted"
            /\ UNCHANGED <<renderFsVars, cleanVars>>
    /\ UNCHANGED <<auxVars, wsVars, optVars, extractLog, flagVars, frameVars, detected_frame_files, frameFsVars,
                   detectVars, videoJson, poolVars, fatal, report>>

\* lines 211-225: delete the extracted frames, return the results
SV_CleanupExtracted ==
    /\ mode = "single" /\ pc = "cleanup_extracted"
    /\ IF CleanupEnabled(opt.keep_extracted_frames, opt.force_extracted_frame_folder_deletion)
       THEN LET choice == SV_ExtractedCleanup(opt.force_extracted_frame_folder_deletion,
                                              frame_output_folder_created)
            IN \E r \in CleanupOutcomes(choice, frame_filenames, fsFrames) :
                 LET h == CleanupHandler(r.exc, warnings)
                 IN /\ fsFrames' = r.fs
                    /\ fsFrameDir' = r.dir
                    /\ rmtreeCalls' = IF choice = "rmtree" THEN rmtreeCalls \cup {"extracted"}
                                      ELSE rmtreeCalls
                    /\ cleanupRan' = cleanupRan \cup {"extracted"}
                    /\ delFailed' = IF r.del THEN delFailed \cup {"extracted"} ELSE delFailed
                    /\ warnings' = h.warnings
                    /\ pc' = IF h.raises THEN Propagate("cleanup") ELSE "returned"
       ELSE /\ pc' = "returned"
            /\ UNCHANGED <<frameFsVars, cleanVars>>
    /\ UNCHANGED <<auxVars, wsVars, optVars, extractLog, flagVars, frameVars, detected_frame_files, renderFsVars,
                   detectVars, videoJson, poolVars, fatal, report>>

\* --------------------------------------------------- process_video_folder

\* the videos of AllVideos with an index in S, in order
VideoList(S) ==
    LET F[i \in 0..Len(AllVideos)] ==
            IF i = 0 THEN <<>>
            ELSE IF i \in S THEN Append(F[i - 1], AllVideos[i]) ELSE F[i - 1]
    IN F[Len(AllVideos)]

\* lines 343-356: annotate next to the source videos, or write to a folder
output_folder_is_input_folder == opt.output_video_file \in {"None", "input"}

\* lines 367-374: the rendered frames selected for the video with relative
\* path rel, by the prefix rendering folder + relative path
video_frame_files(rel, files) ==
    SelectSeq(files, LAMBDA fn : startswith(fn, join(RenderDir, rel)))

\* os.path.isdir of a folder of the rendering workspace: it exists when a
\* file was rendered into it
isdir(folder, fs) == \E f \in fs : startswith(f, folder \o <<Sep>>)

\* lines 361-391: the outcome of process_single_video for one video, before
\* frames_to_video is called: the assertion or the NameError it stops at, or
\* "stitch".  Line 382 reads input_video_file_abs, which nothing binds.
WorkerStep(rel, files, fs, in_place) ==
    IF ~isdir(join(RenderDir, rel), fs) THEN "no_frame_folder"
    ELSE IF Len(video_frame_files(rel, files)) = 0 THEN "no_frames"
    ELSE IF in_place THEN "name_error"
    ELSE "stitch"

\* lines 394-400: pool.map returns when every task has run, and raises the
\* exception of the first task that failed (with up to four videos per
\* worker process each task is a chunk of its own)
PoolResult(first) ==
    IF first = 0 THEN [raises |-> FALSE, reported |-> {}]
    ELSE [raises |-> TRUE, reported |-> {first}]

\* lines 237-265: validate the options, make the extraction workspace
PF_Validate ==
    /\ mode = "folder" /\ pc = "start"
    /\ IF ValidateOptions(opt.output_json_file) # "ok"
       THEN /\ pc' = Propagate("validate")
            /\ fatal' = "validation"
            /\ UNCHANGED fsFrameDir
       ELSE /\ fsFrameDir' = TRUE
            /\ pc' = "extract"
            /\ UNCHANGED fatal
    /\ UNCHANGED <<auxVars, wsVars, optVars, extractLog, flagVars, frameVars, detected_frame_files, fsFrames,
                   renderFsVars, detectVars, videoJson, poolVars, cleanVars, report>>

\* lines 267-287: video_folder_to_frames, the early return, the debug cap
PF_Extract ==
    /\ mode = "folder" /\ pc = "extract"
    /\ extractLog' = Append(extractLog, ExtractorCall(opt))
    /\ \E ok \in BOOLEAN, S \in SUBSET (1..Len(AllVideos)),
          n \in [1..Len(AllVideos) -> 0..MaxFrames] :
         IF ok
         THEN /\ video_filenames' = VideoList(S)
              /\ frame_filenames' =
                    [i \in 1..Cardinality(S) |->
                        FramesInFolder(FrameDir, video_filenames'[i], n[i])]
              /\ Fs' = [i \in 1..Cardinality(S) |-> SourceFps(video_filenames'[i])]
              /\ fsFrames' = fsFrames \cup Range(chain(frame_filenames'))
              /\ report' = EarlyReturn(Len(chain(frame_filenames')), Len(video_filenames'))
              /\ IF report' # "none"
                 THEN /\ image_file_names' = chain(frame_filenames')
                      /\ pc' = "returned"
                 ELSE /\ image_file_names' =
                            Truncate(chain(frame_filenames'), opt.debug_max_frames)
                      /\ pc' = "detect"
              /\ UNCHANGED fatal
         ELSE /\ pc' = Propagate("extract")
              /\ fatal' = "extraction"
              /\ UNCHANGED <<frameVars, fsFrames, report>>
    /\ UNCHANGED <<auxVars, wsVars, optVars, flagVars, detected_frame_files, fsFrameDir, renderFsVars,
                   detectVars, videoJson, poolVars, cleanVars>>

\* lines 292-309: skip the detector or run it and write the frame-level file
PF_Detect ==
    /\ mode = "folder" /\ pc = "detect"
    /\ IF UseExistingResults(opt.reuse_results_if_available, jsonSrc # "none")
       THEN /\ pc' = "aggregate"
            /\ UNCHANGED <<detectVars, fatal>>
       ELSE /\ detectCalls' = detectCalls + 1
            /\ \E ok \in BOOLEAN :
                 IF ok
                 THEN /\ results' = "computed"
                      /\ jsonSrc' = "new"
                      /\ jsonWrites' = jsonWrites + 1
                      /\ pc' = "aggregate"
                      /\ UNCHANGED fatal
                 ELSE /\ pc' = Propagate("detect")
                      /\ fatal' = "detection"
                      /\ UNCHANGED <<results, jsonSrc, jsonWrites>>
    /\ UNCHANGED <<auxVars, wsVars, optVars, extractLog, flagVars, frameVars, detected_frame_files, frameFsVars,
                   renderFsVars, videoJson, poolVars, cleanVars, report>>

\* line 315: frame_results_to_video_results
PF_Aggregate ==
    /\ mode = "folder" /\ pc = "aggregate"
    /\ \E ok \in BOOLEAN :
         IF ok
         THEN /\ videoJson' = TRUE
              /\ pc' = IF opt.render_output_video THEN "render" ELSE "cleanup_extracted"
              /\ UNCHANGED fatal
         ELSE /\ pc' = Propagate("aggregate")
              /\ fatal' = "aggregation"
              /\ UNCHANGED videoJson
    /\ UNCHANGED <<auxVars, wsVars, optVars, extractLog, flagVars, frameVars, detected_frame_files, frameFsVars,
                   renderFsVars, detectVars, poolVars, cleanVars, report>>

\* lines 320-341: rendering workspace and visualize_detector_output.  Line
\* 330 reads tempdir, which line 254 binds only when frame_folder is None.
PF_Render ==
    /\ mode = "folder" /\ pc = "render"
    /\ IF opt.frame_rendering_folder = "None" /\ opt.frame_folder = "given"
       THEN /\ pc' = Propagate("render")
            /\ fatal' = "rendering"
            /\ UNCHANGED <<frame_rendering_folder_created, detected_frame_files, fsRender>>
       ELSE /\ frame_rendering_folder_created' = (opt.frame_rendering_folder = "None")
            /\ \E ok \in BOOLEAN :
                 IF ok
                 THEN /\ detected_frame_files' =
                            [i \in 1..Len(JsonImages) |-> Rendered(JsonImages[i])]
                      /\ fsRender' = fsRender \cup Range(detected_frame_files')
                      /\ pc' = "choose_output"
                      /\ UNCHANGED fatal
                 ELSE /\ pc' = Propagate("render")
                      /\ fatal' = "rendering"
                      /\ UNCHANGED <<detected_frame_files, fsRender>>
    /\ UNCHANGED <<auxVars, wsVars, optVars, extractLog, frame_output_folder_created, frameVars, frameFsVars, fsRenderDir,
                   detectVars, videoJson, poolVars, cleanVars, report>>

\* lines 343-356: choose the output folder; the tasks of pool.map
PF_ChooseOutputFolder ==
    /\ mode = "folder" /\ pc = "choose_output"
    /\ IF opt.output_video_file = "file"
       THEN /\ pc' = Propagate("choose_output")
            /\ fatal' = "output_target"
            /\ UNCHANGED task
       ELSE /\ task' = [i \in 1..Len(video_filenames) |-> "pending"]
            /\ pc' = "pool"
            /\ UNCHANGED fatal
    /\ UNCHANGED <<auxVars, wsVars, optVars, extractLog, flagVars, frameVars, detected_frame_files, frameFsVars,
                   renderFsVars, detectVars, videoJson, stitched, firstFailure, reported,
                   cleanVars, report>>

\* lines 360-391: one task of the pool, for the i-th video
process_single_video(i) ==
    /\ mode = "folder" /\ pc = "pool"
    /\ i \in DOMAIN task /\ task[i] = "pending"
    /\ LET rel == video_filenames[i]
           step == WorkerStep(rel, detected_frame_files, fsRender,
                              output_folder_is_input_folder)
       IN \E ok \in BOOLEAN :
            IF step = "stitch" /\ ok
            THEN /\ stitched' = stitched \cup
                       {[video |-> rel,
                         frames |-> video_frame_files(rel, detected_frame_files),
                         fs |-> rendering_fs(Fs[i], opt.frame_sample),
                         out |-> join(OutDir, rel)]}
                 /\ task' = [task EXCEPT ![i] = "done"]
                 /\ UNCHANGED firstFailure
            ELSE /\ task' = [task EXCEPT ![i] = "failed"]
                 /\ firstFailure' = IF firstFailure = 0 THEN i ELSE firstFailure
                 /\ UNCHANGED stitched
    /\ UNCHANGED <<auxVars, wsVars, optVars, extractLog, pc, flagVars, frameVars, detected_frame_files, frameFsVars,
                   renderFsVars, detectVars, videoJson, reported, fatal, cleanVars, report>>

\* lines 394-400: pool.map returns or raises, pool.close, pool.join
PF_PoolJoin ==
    /\ mode = "folder" /\ pc = "pool"
    /\ PoolComplete(task)
    /\ LET r == PoolResult(firstFailure)
       IN /\ reported' = r.reported
          /\ IF r.raises
             THEN /\ pc' = Propagate("pool")
                  /\ fatal' = "rendering"
             ELSE /\ pc' = "cleanup_rendered"
                  /\ UNCHANGED fatal
    /\ UNCHANGED <<auxVars, wsVars, optVars, extractLog, flagVars, frameVars, detected_frame_files, frameFsVars,
                   renderFsVars, detectVars, videoJson, task, stitched, firstFailure,
                   cleanVars, report>>

\* lines 405-415: delete the rendered frames
PF_CleanupRendered ==
    /\ mode = "folder" /\ pc = "cleanup_rendered"
    /\ IF CleanupEnabled(opt.keep_rendered_frames, opt.force_rendered_frame_folder_deletion)
       THEN LET choice == PF_RenderedCleanup(opt.force_rendered_frame_folder_deletion,
                                             frame_rendering_folder_created)
            IN \E r \in CleanupOutcomes(choice, detected_frame_files, fsRender) :
                 LET h == CleanupHandler(r.exc, warnings)
                 IN /\ fsRender' = r.fs
                    /\ fsRenderDir' = r.dir
                    /\ rmtreeCalls' = IF choice = "rmtree" THEN rmtreeCalls \cup {"rendered"}
                                      ELSE rmtreeCalls
                    /\ cleanupRan' = cleanupRan \cup {"rendered"}
                    /\ delFailed' = IF r.del THEN delFailed \cup {"rendered"} ELSE delFailed
                    /\ warnings' = h.warnings
                    /\ pc' = IF h.raises THEN Propagate("cleanup") ELSE "cleanup_extracted"
       ELSE /\ pc' = "cleanup_extracted"
            /\ UNCHANGED <<renderFsVars, cleanVars>>
    /\ UNCHANGED <<auxVars, wsVars, optVars, extractLog, flagVars, frameVars, detected_frame_files, frameFsVars,
                   detectVars, videoJson, poolVars, fatal, report>>

\* lines 422-434: delete the extracted frames; the function ends
PF_CleanupExtracted ==
    /\ mode = "folder" /\ pc = "cleanup_extracted"
    /\ IF CleanupEnabled(opt.keep_extracted_frames, opt.force_extracted_frame_folder_deletion)
       THEN LET choice == PF_ExtractedCleanup(opt.force_extracted_frame_folder_deletion)
            IN \E r \in CleanupOutcomes(choice, image_file_names, fsFrames) :
                 LET h == CleanupHandler(r.exc, warnings)
                 IN /\ fsFrames' = r.fs
                    /\ fsFrameDir' = r.dir
                    /\ rmtreeCalls' = IF choice = "rmtree" THEN rmtreeCalls \cup {"extracted"}
                                      ELSE rmtreeCalls
                    /\ cleanupRan' = cleanupRan \cup {"extracted"}
                    /\ delFailed' = IF r.del THEN delFailed \cup {"extracted"} ELSE delFailed
                    /\ warnings' = h.warnings
                    /\ pc' = IF h.raises THEN Propagate("cleanup") ELSE "returned"
       ELSE /\ pc' = "returned"
            /\ UNCHANGED <<frameFsVars, cleanVars>>
    /\ UNCHANGED <<auxVars, wsVars, optVars, extractLog, flagVars, frameVars, detected_frame_files, renderFsVars,
                   detectVars, videoJson, poolVars, fatal, report>>

Next ==
    \/ SV_Setup
    \/ SV_Extract
    \/ SV_Detect
    \/ SV_Render
    \/ SV_Stitch
    \/ SV_CleanupRendered
    \/ SV_CleanupExtracted
    \/ PF_Validate
    \/ PF_Extract
    \/ PF_Detect
    \/ PF_Aggregate
    \/ PF_Render
    \/ PF_ChooseOutputFolder
    \/ \E i \in 1..Len(AllVideos) : process_single_video(i)
    \/ PF_PoolJoin
    \/ PF_CleanupRendered
    \/ PF_CleanupExtracted

Spec == Init /\ [][Next]_vars

\* ------------------------------------------------------------- properties

TypeOK ==
    /\ mode \in {"single", "folder"}
    /\ opt \in Options(mode)
    /\ pc \in {"start", "extract", "detect", "aggregate", "render", "stitch",
               "choose_output", "pool", "cleanup_rendered", "cleanup_extracted",
               "returned", "raised"}
    /\ detectCalls \in 0..1 /\ jsonWrites \in 0..1
    /\ rmtreeCalls \subseteq {"rendered", "extracted"}
    /\ delFailed \subseteq cleanupRan

\* the run got past the detection step
ReachedDetection ==
    /\ pc \notin {"start", "extract", "detect"}
    /\ report = "none"
    /\ fatal \notin {"validation", "extraction"}

\* the workspace was made by the run, not supplied by the caller
Created(ws) ==
    IF ws = "extracted" THEN opt.frame_folder = "None"
    ELSE opt.frame_rendering_folder = "None"

Force(ws) ==
    IF ws = "extracted" THEN opt.force_extracted_frame_folder_deletion
    ELSE opt.force_rendered_frame_folder_deletion

\* the output artifact path is not the path of the workspace
Differs(ws) == ws = "rendered" => opt.output_video_file # "workspace"

WsDir(ws) == IF ws = "extracted" THEN fsFrameDir ELSE fsRenderDir

WsFiles(ws) == IF ws = "extracted" THEN fsFrames ELSE fsRender

\* C1: with reuse_results_if_available set and the frame-level result file
\* present, the detector is never called in the run and the run does not
\* write the frame-level result file, in both modes.
C1_ReuseSkipsDetection ==
    (opt.reuse_results_if_available /\ jsonExisted) =>
        (detectCalls = 0 /\ jsonWrites = 0 /\ jsonSrc = "old")

C1_Witness ==
    /\ opt.reuse_results_if_available /\ jsonExisted
    /\ mode = "folder" /\ pc = "returned" /\ videoJson
    /\ Len(detected_frame_files) > 0

\* C2 as stated: every run that ends with reuse_results_if_available unset
\* has called the detector exactly once.
C2_Original ==
    (pc = "returned" /\ ~opt.reuse_results_if_available) => detectCalls = 1

\* C2 amended: with reuse_results_if_available unset, a run that reaches the
\* detection step calls the detector exactly once, whether or not the result
\* file exists, and a run that ends before that step never calls it.
C2_OncePerRunThatDetects ==
    ~opt.reuse_results_if_available =>
        detectCalls = IF ReachedDetection THEN 1 ELSE 0

C2_Witness ==
    /\ ~opt.reuse_results_if_available /\ jsonExisted
    /\ pc = "returned" /\ detectCalls = 1 /\ jsonSrc = "new"

\* C3: with both force flags unset, a caller-supplied frame_folder or
\* frame_rendering_folder is never passed to shutil.rmtree: the folder and
\* the caller's file in it stay, only listed frame files are deleted.
C3_CallerFoldersStay ==
    (~opt.force_extracted_frame_folder_deletion
     /\ ~opt.force_rendered_frame_folder_deletion) =>
        /\ (opt.frame_folder = "given" =>
               /\ "extracted" \notin rmtreeCalls
               /\ fsFrameDir
               /\ Residual(FrameDir) \in fsFrames)
        /\ (opt.frame_rendering_folder = "given" =>
               /\ "rendered" \notin rmtreeCalls
               /\ fsRenderDir
               /\ Residual(RenderDir) \in fsRender)

C3_Witness ==
    /\ ~opt.force_extracted_frame_folder_deletion
    /\ ~opt.force_rendered_frame_folder_deletion
    /\ opt.frame_folder = "given" /\ opt.frame_rendering_folder = "given"
    /\ pc = "returned" /\ cleanupRan = {"rendered", "extracted"} /\ delFailed = {}
    /\ Len(frame_filenames) > 0
    /\ fsFrames = {Residual(FrameDir)} /\ fsRender = {Residual(RenderDir)}

C5_Claim ==
    (/\ mode = "single" /\ pc = "returned"
     /\ opt.frame_folder = "None"
     /\ ~opt.keep_extracted_frames
     /\ ~opt.force_extracted_frame_folder_deletion
     /\ delFailed = {}) =>
        Range(frame_filenames) \cap fsFrames = {}

\* C6: when the cleanup block of a workspace runs (keep flag unset) with its
\* force flag set on a workspace the run created, and the deletion does not
\* raise, the whole folder is gone, with the files in it that are not in the
\* run's list.
C6_ForceRemovesCreatedTree ==
    \A ws \in cleanupRan \ delFailed :
        (Force(ws) /\ Created(ws)) => (~WsDir(ws) /\ WsFiles(ws) = {})

C6_Witness ==
    /\ mode = "folder" /\ pc = "returned"
    /\ Force("extracted") /\ Force("rendered")
    /\ Created("extracted") /\ Created("rendered")
    /\ cleanupRan = {"rendered", "extracted"}
    /\ Len(image_file_names) < Len(chain(frame_filenames))
    /\ ~fsFrameDir /\ ~fsRenderDir

\* C7: when os.remove or shutil.rmtree raises in a cleanup block of
\* process_video, a warning is printed for it, no exception leaves the
\* function, the result file and the output video written before are there,
\* and the function returns the results.
C7_CleanupFailureIsWarning ==
    (mode = "single" /\ delFailed # {}) =>
        /\ pc \in {"cleanup_extracted", "returned"}
        /\ fatal = "none"
        /\ warnings >= Cardinality(delFailed)
        /\ results # "unset" /\ jsonSrc # "none"
        /\ (opt.render_output_video => stitched # {})

C7_Witness ==
    /\ mode = "single" /\ pc = "returned"
    /\ delFailed = {"rendered", "extracted"} /\ warnings = 2
    /\ results = "computed"

\* C8 as stated: when extraction, detection or rendering raises, the
\* exception reaches the caller and (keep_extracted_frames unset) the cleanup
\* of the extraction workspace is still attempted.
C8_Claim ==
    (fatal \in {"extraction", "detection", "rendering"}
     /\ ~opt.keep_extracted_frames) =>
        (pc = "raised" /\ "extracted" \in cleanupRan)

\* C9 as stated: no rendered frame is selected for two videos, so no two
\* stitched videos of a folder run share a frame.
C9_Claim ==
    \A s1, s2 \in stitched :
        s1.video # s2.video => Range(s1.frames) \cap Range(s2.frames) = {}

\* C10 as stated: when tasks of the pool failed, the run is not aborted and
\* every failed task is reported once the pool has completed.
C10_Claim ==
    (mode = "folder" /\ firstFailure # 0 /\ pc # "pool") =>
        /\ pc # "raised"
        /\ reported = {i \in DOMAIN task : task[i] = "failed"}

\* the step process_single_video stops at for the i-th video (meaningful
\* while the rendering workspace is as the renderer left it)
StepOf(i) ==
    WorkerStep(video_filenames[i], detected_frame_files, fsRender,
               output_folder_is_input_folder)

\* a collaborator raised: extractor, detector, aggregator, renderer or assembler
EnvFailed ==
    \/ fatal \in {"extraction", "detection", "aggregation"}
    \/ (fatal = "rendering" /\ task = <<>>)
    \/ \E i \in DOMAIN task : task[i] = "failed" /\ StepOf(i) = "stitch"

\* the rendered frames that lie in the folder of the video rel
OwnFrames(rel) ==
    SelectSeq(detected_frame_files,
              LAMBDA fn : startswith(fn, join(RenderDir, rel) \o <<Sep>>))

\* the output video the folder run is to write for the video rel
ExpectedOutput(rel) ==
    IF opt.output_video_file = "folder" THEN join(OutDir, rel)
    ELSE insert_before_extension(join(InputDir, rel))

\* the part of a folder run that comes after a successful pool.map
AfterPool == pc \in {"cleanup_rendered", "cleanup_extracted", "returned"}

\* C11 as stated: a folder run over one video without frames and one with
\* frames ends without raising and has written both result files, also when
\* rendering (here: rendering to another folder, no collaborator raising).
C11_Claim ==
    (/\ mode = "folder" /\ pc \in {"returned", "raised"}
     /\ opt.output_json_file = "given" /\ opt.frame_folder = "None"
     /\ opt.output_video_file \in {"None", "folder"}
     /\ (opt.render_output_video => opt.output_video_file = "folder")
     /\ \E i, j \in DOMAIN frame_filenames :
            Len(frame_filenames[i]) = 0 /\ Len(frame_filenames[j]) > 0
     /\ ~EnvFailed) =>
        (pc = "returned" /\ videoJson /\ jsonSrc # "none")

\* C12 as stated: a folder run that renders and gets past the pool has
\* stitched exactly one video per discovered video, from the rendered frames
\* in that video's own folder, at that video's frame rate over the stride.
C12_Claim ==
    (/\ mode = "folder" /\ opt.render_output_video
     /\ report = "none" /\ AfterPool) =>
        \A i \in 1..Len(video_filenames) :
            /\ Cardinality({s \in stitched : s.video = video_filenames[i]}) = 1
            /\ \A s \in stitched :
                 s.video = video_filenames[i] =>
                    /\ s.frames = OwnFrames(video_filenames[i])
                    /\ s.fs = IF opt.frame_sample = 0 THEN Fs[i]
                              ELSE Fs[i] \div opt.frame_sample

C15_Claim ==
    (/\ mode = "single" /\ opt.debug_max_frames > 0
     /\ pc \in {"cleanup_rendered", "cleanup_extracted", "returned"}) =>
        /\ image_file_names = Slice(frame_filenames, opt.debug_max_frames)
        /\ \A s \in stitched :
             s.frames = [i \in 1..Len(frame_filenames) |-> Rendered(frame_filenames[i])]
        /\ (("extracted" \in cleanupRan \ delFailed /\ opt.frame_folder = "given") =>
               Range(frame_filenames) \cap fsFrames = {})

\* C16 as stated: when the folder run rejects an output_video_file that is
\* an existing file, nothing has been extracted, detected, written or
\* rendered yet.
C16_Claim ==
    (mode = "folder" /\ fatal = "output_target") =>
        /\ Range(chain(frame_filenames)) \cap fsFrames = {}
        /\ detectCalls = 0 /\ jsonWrites = 0 /\ ~videoJson
        /\ detected_frame_files = <<>>

C18_NoFramesReturn ==
    (/\ mode = "folder" /\ pc \notin {"start", "extract"}
     /\ fatal \notin {"validation", "extraction"}
     /\ Len(chain(frame_filenames)) = 0) =>
        /\ pc = "returned"
        /\ detectCalls = 0 /\ jsonWrites = 0 /\ ~videoJson
        /\ detected_frame_files = <<>> /\ stitched = {}
        /\ report = IF Len(video_filenames) = 0 THEN "no_videos" ELSE "no_frames"

C18_Witness ==
    /\ mode = "folder" /\ pc = "returned"
    /\ Len(video_filenames) = 2 /\ report = "no_frames"

\* C19: process_video with rendering calls frames_to_video once, after the
\* results are there, at the source rate (30) without a stride and at 30 / 5
\* = 6 with stride 5; without rendering it is not called.
C19_StitchOnceAtRate ==
    mode = "single" =>
        /\ ((opt.render_output_video
             /\ pc \in {"cleanup_rendered", "cleanup_extracted", "returned"}) =>
                /\ Cardinality(stitched) = 1
                /\ \A s \in stitched :
                     /\ (opt.frame_sample = 0 => s.fs = 30)
                     /\ (opt.frame_sample = 5 => s.fs = 6)
                /\ results # "unset" /\ jsonSrc # "none")
        /\ (pc \in {"start", "extract", "detect", "render", "stitch"} => stitched = {})
        /\ (~opt.render_output_video => stitched = {})

C19_Witness ==
    /\ mode = "single" /\ pc = "returned" /\ opt.frame_sample = 5
    /\ \E s \in stitched : s.fs = 6 /\ Len(s.frames) > 0

\* C20 as stated: every task of the pool that finds its rendered frames and
\* whose frames_to_video does not raise writes its video to the one target
\* of the run: under the output folder at the relative path, or next to the
\* source video with the annotated marker.
C20_Claim ==
    (mode = "folder" /\ pc = "pool") =>
        \A i \in DOMAIN task :
            (/\ task[i] # "pending"
             /\ StepOf(i) \notin {"no_frame_folder", "no_frames"}
             /\ ~(task[i] = "failed" /\ StepOf(i) = "stitch")) =>
                \E s \in stitched :
                    /\ s.video = video_filenames[i]
                    /\ s.out = ExpectedOutput(video_filenames[i])

\* ---------------------------------------------------------------------------
\* Two runs of process_video at the same time, same user, same system temp
\* directory, default folders (frame_folder and frame_rendering_folder are
\* None) and render_output_video set.  uuid1() never returns a value twice, so
\* it is a counter.  A folder name is the tuple of the parts that vary.
\* ---------------------------------------------------------------------------

\* lines 115-127: tempdir/<user>_<uuid1>/<basename>_frames_<uuid1>
frame_output_folder_name(base, u1, u2) == <<u1, base, u2>>

\* lines 171-172: tempdir/<basename>_detections
rendering_output_dir_name(base) == <<base, "_detections">>

\* lines 111-130 and 166-175: name and create the two workspaces
W_MakeWorkspaces(r) ==
    /\ w_pc[r] = "start"
    /\ w_uuid' = w_uuid + 2
    /\ w_frame' = [w_frame EXCEPT ![r] =
                      frame_output_folder_name(w_base[r], w_uuid + 1, w_uuid + 2)]
    /\ w_render' = [w_render EXCEPT ![r] = rendering_output_dir_name(w_base[r])]
    /\ w_pc' = [w_pc EXCEPT ![r] = "made"]
    /\ UNCHANGED <<runVars, auxVars, w_base, w_fsFrames, w_fsRender>>

\* lines 132-133: the extractor writes the run's frames
W_Extract(r) ==
    /\ w_pc[r] = "made"
    /\ w_fsFrames' = w_fsFrames \cup {[dir |-> w_frame[r], owner |-> r]}
    /\ w_pc' = [w_pc EXCEPT ![r] = "extracted"]
    /\ UNCHANGED <<runVars, auxVars, w_base, w_uuid, w_frame, w_render, w_fsRender>>

\* lines 177-182: the renderer writes the run's rendered frames
W_Render(r) ==
    /\ w_pc[r] = "extracted"
    /\ w_fsRender' = w_fsRender \cup {[dir |-> w_render[r], owner |-> r]}
    /\ w_pc' = [w_pc EXCEPT ![r] = "rendered"]
    /\ UNCHANGED <<runVars, auxVars, w_base, w_uuid, w_frame, w_render, w_fsFrames>>

\* lines 194-223 with the default flags: the rendering folder was created by
\* the run and is not the output video, the json path is read through the
\* misspelt attribute
W_Cleanup(r) ==
    /\ w_pc[r] = "rendered"
    /\ w_fsRender' =
          IF SV_RenderedCleanup(FALSE, TRUE, TRUE) = "rmtree"
          THEN {f \in w_fsRender : f.dir # w_render[r]}
          ELSE w_fsRender \ {[dir |-> w_render[r], owner |-> r]}
    /\ w_fsFrames' =
          IF SV_ExtractedCleanup(FALSE, TRUE) = "rmtree"
          THEN {f \in w_fsFrames : f.dir # w_frame[r]}
          ELSE w_fsFrames
    /\ w_pc' = [w_pc EXCEPT ![r] = "done"]
    /\ UNCHANGED <<runVars, auxVars, w_base, w_uuid, w_frame, w_render>>

InitW ==
    /\ InitRun
    /\ mode = "single"
    /\ ~jsonExisted
    /\ opt.render_output_video
    /\ opt.frame_folder = "None" /\ opt.frame_rendering_folder = "None"
    /\ opt.output_video_file = "None"
    /\ ~opt.reuse_results_if_available /\ ~opt.reuse_frames_if_available
    /\ ~opt.keep_rendered_frames /\ ~opt.keep_extracted_frames
    /\ ~opt.force_extracted_frame_folder_deletion
    /\ ~opt.force_rendered_frame_folder_deletion
    /\ opt.debug_max_frames = -1 /\ opt.frame_sample = 0
    /\ \E bases \in [Runs -> Bases] : InitWorkspaces(bases)
    /\ InitAux

NextW ==
    \/ \E r \in Runs : W_MakeWorkspaces(r)
    \/ \E r \in Runs : W_Extract(r)
    \/ \E r \in Runs : W_Render(r)
    \/ \E r \in Runs : W_Cleanup(r)

SpecWorkspaces == InitW /\ [][NextW]_vars

\* a run holds its workspaces from their creation to the end of its cleanup
Holds(r) == w_pc[r] \in {"made", "extracted", "rendered"}

\* C14: two runs at the same time never share a temporary workspace: their
\* extraction folders differ, their rendering folders differ, and the rendered
\* frames a run wrote are on disk until that run's own cleanup.
C14_Claim ==
    /\ \A r1, r2 \in Runs :
          (r1 # r2 /\ Holds(r1) /\ Holds(r2)) =>
              /\ w_frame[r1] # w_frame[r2]
              /\ w_render[r1] # w_render[r2]
    /\ \A r \in Runs :
          w_pc[r] = "rendered" => [dir |-> w_render[r], owner |-> r] \in w_fsRender

\* ---------------------------------------------------------------------------
\* Extraction arguments, default folder cleanup, keep flags
\* ---------------------------------------------------------------------------

\* C22: a run that gets to the extraction step calls the extractor exactly
\* once, with overwrite = NOT reuse_frames_if_available and with the
\* configured stride; the extractor is allowed to reuse frames that are
\* already there only when reuse_frames_if_available is set.
C22_ExtractorOncePerRun ==
    /\ Len(extractLog) <= 1
    /\ (pc \notin {"start", "extract"} /\ fatal # "validation") => Len(extractLog) = 1
    /\ \A i \in DOMAIN extractLog :
          /\ extractLog[i].overwrite = ~opt.reuse_frames_if_available
          /\ extractLog[i].every_n_frames = opt.frame_sample
          /\ (extractLog[i].may_reuse => opt.reuse_frames_if_available)

C22_Witness ==
    /\ pc = "returned" /\ opt.reuse_frames_if_available /\ opt.frame_sample = 5
    /\ Len(extractLog) = 1 /\ ~extractLog[1].overwrite
    /\ Len(image_file_names) > 0

\* C24 as stated: a folder run with keep_extracted_frames and the force flag
\* unset whose extraction cleanup ran without a failing deletion has removed
\* every frame extracted in the run and left the workspace folder in place,
\* whatever debug_max_frames is.
C24_Claim ==
    (/\ mode = "folder" /\ pc = "returned" /\ report = "none"
     /\ ~opt.keep_extracted_frames /\ ~opt.force_extracted_frame_folder_deletion
     /\ "extracted" \in cleanupRan /\ "extracted" \notin delFailed) =>
        /\ Range(chain(frame_filenames)) \cap fsFrames = {}
        /\ fsFrameDir

\* C25: while keep_extracted_frames is set no step removes a file or the
\* folder of the extraction workspace, and likewise keep_rendered_frames
\* for the rendering workspace, whatever the force flags are.
C25_KeepBeatsForce ==
    [][/\ (opt.keep_extracted_frames =>
              (fsFrames \subseteq fsFrames' /\ (fsFrameDir => fsFrameDir')))
       /\ (opt.keep_rendered_frames =>
              (fsRender \subseteq fsRender' /\ (fsRenderDir => fsRenderDir')))]_vars

C25_Witness ==
    /\ pc = "returned" /\ mode = "single"
    /\ opt.keep_extracted_frames /\ opt.force_extracted_frame_folder_deletion
    /\ opt.keep_rendered_frames /\ opt.force_rendered_frame_folder_deletion
    /\ Len(frame_filenames) > 0 /\ Range(frame_filenames) \subseteq fsFrames
    /\ Len(detected_frame_files) > 0 /\ Range(detected_frame_files) \subseteq fsRender

\* ---------------------------------------------------------------------------
\* One ProcessVideoOptions object used for successive process_video calls:
\* the caller sets input_video_file and calls process_video, which resolves
\* the output paths at lines 105-109 by assigning to the object.
\* ---------------------------------------------------------------------------

\* largest number of process_video calls made with one options object
MaxCalls == 2

\* lines 106 and 109: the default output paths of an input video
DefaultJson(input) == input \o <<".json">>
DefaultVideo(input) == input \o <<".detections.mp4">>

\* lines 105-106: output_json_file after the assignment
ResolveJson(output_json_file, input) ==
    IF output_json_file = None THEN DefaultJson(input) ELSE output_json_file

\* lines 108-109: output_video_file after the assignment
ResolveVideo(output_video_file, input, render_output_video) ==
    IF render_output_video /\ output_video_file = None
    THEN DefaultVideo(input) ELSE output_video_file

\* the caller points the object at another video
R_SetInput ==
    /\ Len(o_calls) < MaxCalls
    /\ \E v \in Inputs \ {o_input} : o_input' = v
    /\ UNCHANGED <<runVars, wsVars, csvVars, mergeVars, o_json, o_video, o_render, o_supplied, o_calls>>

\* lines 100-225 as far as the output paths go: the paths are resolved into
\* the object and the call writes its results to them
R_ProcessVideo ==
    /\ Len(o_calls) < MaxCalls
    /\ o_json' = ResolveJson(o_json, o_input)
    /\ o_video' = ResolveVideo(o_video, o_input, o_render)
    /\ o_calls' = Append(o_calls, [input |-> o_input, json |-> o_json', video |-> o_video'])
    /\ UNCHANGED <<runVars, wsVars, csvVars, mergeVars, o_input, o_render, o_supplied>>

\* no run of process_video is under way: a single-video run with the default
\* options that has not started
InitRunIdle ==
    /\ InitRun
    /\ mode = "single"
    /\ ~jsonExisted
    /\ opt = [reuse_results_if_available |-> FALSE, reuse_frames_if_available |-> FALSE,
              render_output_video |-> FALSE, keep_rendered_frames |-> FALSE,
              keep_extracted_frames |-> FALSE,
              force_extracted_frame_folder_deletion |-> FALSE,
              force_rendered_frame_folder_deletion |-> FALSE,
              frame_folder |-> "None", frame_rendering_folder |-> "None",
              output_json_file |-> "None", output_video_file |-> "None",
              debug_max_frames |-> -1, frame_sample |-> 0]

InitR ==
    /\ InitRunIdle
    /\ InitWorkspaces([r \in Runs |-> "a"])
    /\ InitCsv(<<>>, <<>>)
    /\ InitMergeIdle
    /\ \E input \in Inputs, json \in {None, <<"j">>}, video \in {None, <<"v">>},
          render \in BOOLEAN :
          InitOptionsObject(input, json, video, render)

NextR ==
    \/ R_SetInput
    \/ R_ProcessVideo

SpecOptionsObject == InitR /\ [][NextR]_vars

\* C21 as stated: every process_video call made with the object uses the
\* path the caller supplied, and where none was supplied the default made
\* from the input video of that same call.
C21_Claim ==
    \A i \in DOMAIN o_calls :
        /\ o_calls[i].json =
              IF o_supplied.json # None THEN o_supplied.json
              ELSE DefaultJson(o_calls[i].input)
        /\ (o_render =>
              o_calls[i].video =
                 IF o_supplied.video # None THEN o_supplied.video
                 ELSE DefaultVideo(o_calls[i].input))

\* ---------------------------------------------------------------------------
\* timelapse_csv_set_to_json.py, the main loop over labels (lines 250-372).
\* One camera folder K is mapped from the csv file "k"; the csv file "u" has
\* no camera folder.  A folder name is a tuple of characters, so that
\* str.endswith is a suffix test.
\* ---------------------------------------------------------------------------

\* largest number of rows of input_metadata
MaxRows == 2

endswith(t, suffix) ==
    Len(suffix) <= Len(t) /\ SubSeq(t, Len(t) - Len(suffix) + 1, Len(t)) = suffix

\* lines 214-219: the image folders under the camera folder; the list is
\* filled by iterating a set, so its order is not fixed
CandidateFolders == {<<"K", "/", "1", "0">>, <<"K", "/", "3", "0">>}
CandidateLists ==
    {l \in [1..Cardinality(CandidateFolders) -> CandidateFolders] :
        \A a, b \in DOMAIN l : l[a] = l[b] => a = b}

\* line 190: the csv files that have a camera folder
csv_filename_to_camera_folder == [k \in {"k"} |-> <<"K">>]

\* lines 54-70: the image files of the file list
image_files ==
    {<<"K", "/", "1", "0", "/", "f">>, <<"K", "/", "3", "0", "/", "f">>,
     <<"K", "/", "3", "0", "/", "_">>}

\* the rows a csv file can hold; a row of the csv file without camera
\* folder is skipped whatever its other columns are
Rows ==
    [source_file : {"k"}, folder : {<<"1", "0">>, <<"2", "0">>, <<"0">>},
     File : {<<"f">>, <<"g">>, <<"_">>}, Species : {"nan", "Deer", "none"},
     Empty : BOOLEAN]
    \cup [source_file : {"u"}, folder : {<<"1", "0">>}, File : {<<"f">>},
          Species : {"nan"}, Empty : {FALSE}]

RowLists == UNION {[1..n -> Rows] : n \in 0..MaxRows}

RECURSIVE LastMatch(_, _, _)
\* lines 278-281: the last candidate folder that ends with image_folder,
\* None when there is none
LastMatch(candidates, image_folder, found) ==
    IF candidates = <<>> THEN found
    ELSE LastMatch(Tail(candidates), image_folder,
                   IF endswith(Head(candidates), image_folder)
                   THEN Head(candidates) ELSE found)

\* line 291: image_relative_path.replace('_','~').replace('/','_')
ImageId(image_relative_path) ==
    [k \in DOMAIN image_relative_path |->
        IF image_relative_path[k] = "_" THEN "~"
        ELSE IF image_relative_path[k] = "/" THEN "_"
        ELSE image_relative_path[k]]

\* str.lower on the species names of the rows
lower(name) == IF name = "Deer" THEN "deer" ELSE name

\* line 42
category_mappings(name) == IF name = "none" THEN "empty" ELSE name

\* lines 329-349: the category name of a row
CategoryName(row) ==
    LET category_name == IF row.Species = "nan" THEN "None" ELSE lower(row.Species)
        after_empty ==
            IF row.Empty
            THEN IF category_name # "None" THEN "ambiguous" ELSE "empty"
            ELSE IF category_name = "None" THEN "unlabeled" ELSE category_name
    IN category_mappings(after_empty)

\* lines 282-287: what the loop does with a row whose folder has no match;
\* "continue" sits inside the test of ignored_image_folders, so an already
\* ignored folder falls through to line 289 with image_folder_relative_path
\* None, where None + '/' raises TypeError
UnmatchedFolder(camera_image_folder, ignored) ==
    IF camera_image_folder \notin ignored THEN "continue" ELSE "TypeError"

\* lines 253-372: one iteration of the loop
C_Row ==
    /\ c_pc = "loop" /\ c_i < Len(c_rows)
    /\ c_i' = c_i + 1
    /\ LET row == c_rows[c_i + 1]
           image_folder == row.folder
       IN IF row.source_file \notin DOMAIN csv_filename_to_camera_folder
          THEN /\ c_ignored_csv_files' = c_ignored_csv_files \cup {row.source_file}
               /\ UNCHANGED <<c_pc, c_images, c_annotations, c_categories,
                              c_ignored_image_folders, c_missing, c_duplicates>>
          ELSE
            LET camera_folder == csv_filename_to_camera_folder[row.source_file]
                image_folder_relative_path == LastMatch(c_candidates, image_folder, None)
                camera_image_folder == camera_folder \o <<"_">> \o image_folder
            IN IF image_folder_relative_path = None
               THEN /\ c_ignored_image_folders' =
                          c_ignored_image_folders \cup {camera_image_folder}
                    /\ c_pc' = IF UnmatchedFolder(camera_image_folder,
                                                  c_ignored_image_folders) = "continue"
                               THEN "loop" ELSE "raised"
                    /\ UNCHANGED <<c_images, c_annotations, c_categories,
                                   c_ignored_csv_files, c_missing, c_duplicates>>
               ELSE
                 LET image_relative_path ==
                         image_folder_relative_path \o <<"/">> \o row.File
                     image_id == ImageId(image_relative_path)
                     known == \E k \in DOMAIN c_images : c_images[k].id = image_id
                     category_name == CategoryName(row)
                     new_category == \A k \in DOMAIN c_categories :
                                         c_categories[k] # category_name
                     categories == IF new_category
                                   THEN Append(c_categories, category_name)
                                   ELSE c_categories
                     category_id ==
                         (CHOOSE k \in DOMAIN categories :
                              categories[k] = category_name) - 1
                 IN IF image_relative_path \notin image_files
                    THEN /\ c_missing' = Append(c_missing, image_relative_path)
                         /\ UNCHANGED <<c_pc, c_images, c_annotations, c_categories,
                                        c_ignored_csv_files, c_ignored_image_folders,
                                        c_duplicates>>
                    ELSE /\ c_images' =
                               IF known THEN c_images
                               ELSE Append(c_images, [id |-> image_id,
                                                      file_name |-> image_relative_path])
                         /\ c_duplicates' = IF known THEN c_duplicates \cup {image_id}
                                            ELSE c_duplicates
                         /\ c_categories' = categories
                         /\ c_annotations' =
                               Append(c_annotations,
                                      [image_id |-> image_id, category_id |-> category_id,
                                       row |-> c_i + 1])
                         /\ UNCHANGED <<c_pc, c_ignored_csv_files,
                                        c_ignored_image_folders, c_missing>>
    /\ UNCHANGED <<runVars, wsVars, optObjVars, mergeVars, c_rows, c_candidates>>

\* line 376: the loop is over
C_Finish ==
    /\ c_pc = "loop" /\ c_i = Len(c_rows)
    /\ c_pc' = "done"
    /\ UNCHANGED <<runVars, wsVars, optObjVars, mergeVars, c_rows, c_candidates, c_i, c_images,
                   c_annotations, c_categories, c_ignored_csv_files,
                   c_ignored_image_folders, c_missing, c_duplicates>>

InitC ==
    /\ InitRunIdle
    /\ InitWorkspaces([r \in Runs |-> "a"])
    /\ InitOptionsObject(<<"a">>, None, None, FALSE)
    /\ InitMergeIdle
    /\ \E rows \in RowLists, candidates \in CandidateLists : InitCsv(rows, candidates)

NextC ==
    \/ C_Row
    \/ C_Finish

SpecTimelapse == InitC /\ [][NextC]_vars

\* the row names an image folder that no candidate folder of its camera ends with
Unmatched(row) ==
    /\ row.source_file \in DOMAIN csv_filename_to_camera_folder
    /\ LastMatch(c_candidates, row.folder, None) = None

\* C28 as stated: a row whose image folder matches no candidate folder is
\* skipped every time: the import is not stopped by it, and it yields no
\* image record and no annotation.
C28_Claim ==
    /\ c_pc # "raised"
    /\ \A k \in DOMAIN c_annotations : ~Unmatched(c_rows[c_annotations[k].row])
    /\ (c_pc = "done" /\ \A k \in DOMAIN c_rows : Unmatched(c_rows[k])) =>
          (c_images = <<>> /\ c_annotations = <<>>)

\* ---------------------------------------------------------------------------
\* merge_detections.py, merge_detections (lines 46-220).  Confidences and
\* thresholds are in tenths, IoU values and the IoU threshold in hundredths,
\* boxes are x/y/w/h on a grid on which the image is 2 by 2, areas are in
\* grid cells.  The target file holds the images "p" and "q"; the source
\* file "s" is listed once or twice.
\* ---------------------------------------------------------------------------

\* largest number of detections of an image in a file that is read
MaxDets == 2

\* the detections a file can hold for an image, in the order they are listed
DetUniverse ==
    << [category |-> "2", conf |-> 9, bbox |-> <<0, 0, 2, 1>>, transferred_from |-> ""],
       [category |-> "1", conf |-> 9, bbox |-> <<0, 0, 2, 1>>, transferred_from |-> ""],
       [category |-> "1", conf |-> 6, bbox |-> <<1, 0, 1, 1>>, transferred_from |-> ""],
       [category |-> "1", conf |-> 9, bbox |-> <<0, 0, 2, 2>>, transferred_from |-> ""] >>

RECURSIVE Pick(_, _)
\* the detections of DetUniverse with an index in S, in order
Pick(S, k) ==
    IF k > Len(DetUniverse) THEN <<>>
    ELSE (IF k \in S THEN <<DetUniverse[k]>> ELSE <<>>) \o Pick(S, k + 1)

DetLists == {Pick(S, 1) : S \in {T \in SUBSET DOMAIN DetUniverse : Cardinality(T) <= MaxDets}}

\* an image entry of a results file; has is FALSE when 'detections' is
\* missing or None; max_detection_conf is -1 when the field is missing
Image(file, has, detections, with_max) ==
    [file |-> file, has |-> has, detections |-> detections,
     max_detection_conf |->
        IF ~with_max THEN -1
        ELSE IF detections = <<>> THEN 0
        ELSE CHOOSE c \in {detections[k].conf : k \in DOMAIN detections} :
                 \A k \in DOMAIN detections : detections[k].conf <= c]

\* the images of the target file: "p" with detections and max_detection_conf,
\* "q" without the field, with no detection or with 'detections' None
TargetFiles ==
    {[f \in {"p", "q"} |->
         IF f = "p" THEN Image("p", TRUE, dp, TRUE) ELSE Image("q", hq, <<>>, FALSE)] :
       dp \in DetLists, hq \in BOOLEAN}

\* the images of the source file: "p", then "q" or an image "z" that the
\* target file does not have
SourceFiles ==
    {<<Image("p", TRUE, dp, FALSE), second>> :
       dp \in DetLists,
       second \in {Image("q", FALSE, <<>>, FALSE), Image("q", TRUE, <<DetUniverse[2]>>, FALSE),
                   Image("z", TRUE, <<DetUniverse[2]>>, FALSE)}}

\* the source file listed once, or twice with the same or a lower threshold
\* for the second listing
Listings ==
    {[files |-> <<"s">>, thresholds |-> <<8>>],
     [files |-> <<"s">>, thresholds |-> <<5>>],
     [files |-> <<"s", "s">>, thresholds |-> <<8, 8>>],
     [files |-> <<"s", "s">>, thresholds |-> <<8, 5>>]}

CategoryOption == {[given |-> FALSE, cats |-> {}], [given |-> TRUE, cats |-> {1}]}

\* MergeDetectionsOptions (lines 24-40) for a listing
MergeOptions(thresholds) ==
    [merge_empty_only : BOOLEAN, iou_threshold : {50, 90, 110},
     target_confidence_threshold : {8}, source_confidence_thresholds : {thresholds},
     categories_to_include : CategoryOption, categories_to_exclude : CategoryOption,
     min_detection_size : {1}, max_detection_size : {2}]

\* int(c) for the keys of detection_categories
int(c) == IF c = "1" THEN 1 ELSE 2

\* lines 87-108: the categories to process, in the order of the keys
DetectionCategories(o) ==
    LET raw == <<"1", "2">>
    IN IF o.categories_to_exclude.given
       THEN SelectSeq(raw, LAMBDA c : int(c) \notin o.categories_to_exclude.cats)
       ELSE IF o.categories_to_include.given
       THEN SelectSeq(raw, LAMBDA c : int(c) \in o.categories_to_include.cats)
       ELSE raw

\* ct_utils.get_iou on x/y/w/h boxes of positive area, in hundredths
get_iou(bb1, bb2) ==
    LET Max2(a, b) == IF a >= b THEN a ELSE b
        x_left == Max2(bb1[1], bb2[1])
        y_top == Max2(bb1[2], bb2[2])
        x_right == Min(bb1[1] + bb1[3], bb2[1] + bb2[3])
        y_bottom == Min(bb1[2] + bb1[4], bb2[2] + bb2[4])
        intersection_area ==
            IF x_right < x_left \/ y_bottom < y_top THEN 0
            ELSE (x_right - x_left) * (y_bottom - y_top)
        bb1_area == bb1[3] * bb1[4]
        bb2_area == bb2[3] * bb2[4]
    IN (intersection_area * 100) \div (bb1_area + bb2_area - intersection_area)

\* variant: no upper bound on the box area
SizeOk_NoMax(det, o) == det.bbox[3] * det.bbox[4] >= o.min_detection_size

\* lines 171-175: the size filter
SizeOk(det, o) ==
    /\ det.bbox[3] * det.bbox[4] <= o.max_detection_size
    /\ det.bbox[3] * det.bbox[4] >= o.min_detection_size

\* variant: the detections of the target file as they were loaded
TargetDetections_AsLoaded(loaded, current) == loaded

\* lines 136 and 145: target_im is the entry of output_data, whose list the
\* transfers of the earlier source files were appended to
TargetDetections(loaded, current) == current

\* lines 156-157: the largest confidence of the list, 0 for an empty list
MaxConf(dets) ==
    IF dets = <<>> THEN 0
    ELSE CHOOSE c \in {dets[k].conf : k \in DOMAIN dets} :
             \A k \in DOMAIN dets : dets[k].conf <= c

\* lines 150-197: the detections of one category to transfer
TransferOfCategory(c, source_dets, target_dets, o, threshold, name) ==
    LET target_c == SelectSeq(target_dets, LAMBDA d : d.category = c)
        source_c == SelectSeq(source_dets, LAMBDA d : d.category = c /\ SizeOk(d, o))
        wanted(d) ==
            /\ d.conf >= threshold
            /\ (o.merge_empty_only \/
                  \A k \in DOMAIN target_c :
                       ~(get_iou(d.bbox, target_c[k].bbox) >= o.iou_threshold))
        tag(d) == [d EXCEPT !.transferred_from = name]
        chosen == SelectSeq(source_c, wanted)
    IN IF o.merge_empty_only /\ MaxConf(target_c) >= o.target_confidence_threshold
       THEN <<>>
       ELSE [k \in DOMAIN chosen |-> tag(chosen[k])]

RECURSIVE DetectionsToTransfer(_, _, _, _, _, _)
\* lines 147-199: detections_to_transfer of one source image
DetectionsToTransfer(cats, source_dets, target_dets, o, threshold, name) ==
    IF cats = <<>> THEN <<>>
    ELSE TransferOfCategory(Head(cats), source_dets, target_dets, o, threshold, name)
         \o DetectionsToTransfer(Tail(cats), source_dets, target_dets, o, threshold, name)

\* lines 48-108: the assertions on the options and the category choice
M_Start ==
    /\ m_pc = "start" /\ m_source_files # <<>>
    /\ IF \/ (m_opt.categories_to_exclude.given /\ m_opt.categories_to_include.given)
          \/ Len(m_source_files) # Len(m_opt.source_confidence_thresholds)
       THEN /\ m_pc' = "raised"
            /\ UNCHANGED <<m_cats, m_i>>
       ELSE /\ m_cats' = DetectionCategories(m_opt)
            /\ m_i' = 1
            /\ m_pc' = "file"
    /\ UNCHANGED <<runVars, wsVars, optObjVars, csvVars, m_opt, m_source_files, m_source,
                   m_target, m_out, m_info, m_j, m_run, m_transfers>>

\* lines 111-128: the next source file is loaded
M_OpenSource ==
    /\ m_pc = "file" /\ m_i <= Len(m_source_files)
    /\ m_info' = Append(m_info, m_source_files[m_i])
    /\ m_j' = 1
    /\ m_pc' = "image"
    /\ UNCHANGED <<runVars, wsVars, optObjVars, csvVars, m_opt, m_source_files, m_source,
                   m_target, m_out, m_cats, m_i, m_run, m_transfers>>

\* lines 131-211: one image of the source file
M_Image ==
    /\ m_pc = "image" /\ m_j <= Len(m_source)
    /\ LET source_im == m_source[m_j]
           image_filename == source_im.file
       IN IF image_filename \notin DOMAIN m_out
          THEN /\ m_pc' = "raised"
               /\ UNCHANGED <<m_out, m_j, m_transfers>>
          ELSE
            LET target_im == m_out[image_filename]
                detections_to_transfer ==
                    DetectionsToTransfer(m_cats, source_im.detections,
                        TargetDetections(m_target[image_filename].detections,
                                         target_im.detections),
                        m_opt, m_opt.source_confidence_thresholds[m_i],
                        m_source_files[m_i])
                detections == target_im.detections \o detections_to_transfer
            IN /\ m_j' = m_j + 1
               /\ m_pc' = "image"
               /\ IF source_im.has /\ target_im.has /\ Len(detections_to_transfer) > 0
                  THEN /\ m_out' = [m_out EXCEPT ![image_filename] =
                                       [@ EXCEPT !.detections = detections,
                                                 !.max_detection_conf =
                                                     IF @ = -1 THEN -1
                                                     ELSE MaxConf(detections)]]
                       /\ m_transfers' = m_transfers \cup
                             {[file |-> image_filename, det |-> detections_to_transfer[k],
                               i |-> m_i, run |-> m_run] :
                                k \in DOMAIN detections_to_transfer}
                  ELSE UNCHANGED <<m_out, m_transfers>>
    /\ UNCHANGED <<runVars, wsVars, optObjVars, csvVars, m_opt, m_source_files, m_source,
                   m_target, m_info, m_cats, m_i, m_run>>

\* line 213: the images of the source file are done
M_EndSource ==
    /\ m_pc = "image" /\ m_j > Len(m_source)
    /\ m_i' = m_i + 1
    /\ m_pc' = "file"
    /\ UNCHANGED <<runVars, wsVars, optObjVars, csvVars, m_opt, m_source_files, m_source,
                   m_target, m_out, m_info, m_cats, m_j, m_run, m_transfers>>

\* lines 217-220: output_data is written to output_file
M_Save ==
    /\ m_pc = "file" /\ m_i > Len(m_source_files)
    /\ m_pc' = "saved"
    /\ UNCHANGED <<runVars, wsVars, optObjVars, csvVars, m_opt, m_source_files, m_source,
                   m_target, m_out, m_info, m_cats, m_i, m_j, m_run, m_transfers>>

\* the caller merges the same source file, listed once, into the output
\* file of the first call, with the same options
M_MergeAgain ==
    /\ m_pc = "saved" /\ m_run = 1 /\ Len(m_source_files) = 1
    /\ m_target' = m_out
    /\ m_run' = 2
    /\ m_info' = <<>>
    /\ m_cats' = <<>>
    /\ m_i' = 0
    /\ m_j' = 0
    /\ m_pc' = "start"
    /\ UNCHANGED <<runVars, wsVars, optObjVars, csvVars, m_opt, m_source_files, m_source,
                   m_out, m_transfers>>

InitM ==
    /\ InitRunIdle
    /\ InitWorkspaces([r \in Runs |-> "a"])
    /\ InitOptionsObject(<<"a">>, None, None, FALSE)
    /\ InitCsv(<<>>, <<>>)
    /\ \E l \in Listings, source \in SourceFiles, target \in TargetFiles :
          \E o \in MergeOptions(l.thresholds) : InitMerge(o, l.files, source, target)

NextM ==
    \/ M_Start
    \/ M_OpenSource
    \/ M_Image
    \/ M_EndSource
    \/ M_Save
    \/ M_MergeAgain

SpecMerge == InitM /\ [][NextM]_vars

\* the target detections of the category c that the image f had when the
\* target file was loaded
LoadedOfCategory(f, c) ==
    SelectSeq(m_target[f].detections, LAMBDA d : d.category = c)

\* C23 as stated: no detection of a category is transferred into an image
\* whose target detections of that category reach
\* target_confidence_threshold.
C23_Claim ==
    \A tr \in m_transfers :
        tr.run = m_run =>
            MaxConf(LoadedOfCategory(tr.file, tr.det.category))
                < m_opt.target_confidence_threshold

\* C26: for every image the output detections are the target's detections
\* in their order followed by transferred ones, and every transferred
\* detection is tagged, has a box area within [min_detection_size,
\* max_detection_size], a selected category, and a confidence that reaches
\* the threshold of the source file it was taken from.
C26_TargetKeptTransfersFiltered ==
    \A f \in DOMAIN m_out :
        LET loaded == m_target[f].detections
            out == m_out[f].detections
        IN /\ m_out[f].has = m_target[f].has
           /\ Len(out) >= Len(loaded)
           /\ SubSeq(out, 1, Len(loaded)) = loaded
           /\ \A k \in (Len(loaded) + 1)..Len(out) :
                 /\ out[k].transferred_from # ""
                 /\ out[k].bbox[3] * out[k].bbox[4] >= m_opt.min_detection_size
                 /\ out[k].bbox[3] * out[k].bbox[4] <= m_opt.max_detection_size
                 /\ (m_opt.categories_to_exclude.given =>
                        int(out[k].category) \notin m_opt.categories_to_exclude.cats)
                 /\ (m_opt.categories_to_include.given =>
                        int(out[k].category) \in m_opt.categories_to_include.cats)
                 /\ \E tr \in m_transfers :
                       /\ tr.file = f /\ tr.det = out[k] /\ tr.run = m_run
                       /\ out[k].conf >= m_opt.source_confidence_thresholds[tr.i]

C26_Witness ==
    /\ m_pc = "saved"
    /\ Len(m_target["p"].detections) > 0
    /\ Len(m_out["p"].detections) > Len(m_target["p"].detections)
    /\ \E k \in DOMAIN m_source[1].detections :
          m_source[1].detections[k].bbox[3] * m_source[1].detections[k].bbox[4]
              > m_opt.max_detection_size

\* a transfer made by the second listing of the source file or by the
\* second merge
SecondTime(tr) == tr.i = 2 \/ tr.run = 2

\* C27 as stated: with merge_empty_only unset and iou_threshold <= 1,
\* merging the same source file a second time transfers no detection.
C27_Original ==
    (~m_opt.merge_empty_only /\ m_opt.iou_threshold <= 100) =>
        \A tr \in m_transfers : ~SecondTime(tr)

\* C27: with merge_empty_only unset, iou_threshold <= 1 and the same source
\* confidence threshold both times, merging the same source file a second
\* time transfers no detection.
C27_SameThresholdIdempotent ==
    (/\ ~m_opt.merge_empty_only /\ m_opt.iou_threshold <= 100
     /\ \A a, b \in DOMAIN m_opt.source_confidence_thresholds :
           m_opt.source_confidence_thresholds[a] = m_opt.source_confidence_thresholds[b]) =>
        \A tr \in m_transfers : ~SecondTime(tr)

C27_Witness ==
    /\ m_pc = "saved" /\ Len(m_source_files) = 2
    /\ m_opt.source_confidence_thresholds = <<8, 8>>
    /\ ~m_opt.merge_empty_only /\ m_opt.iou_threshold <= 100
    /\ \E tr \in m_transfers : tr.i = 1 /\ tr.file = "p"

====
